---- MODULE Spec2Model ----
(***************************************************************************)
(* MCP tool-server subsystem: McpConnection (client.ts), the process-wide *)
(* registry (registry.ts), the tool bridge (tool-bridge.ts) and the       *)
(* reconnect / tools commands of the CLI (mcp-cli.ts).                     *)
(*                                                                         *)
(* Scheduling model: single-threaded cooperative.  An async function runs  *)
(* without interleaving up to an await of a transport round trip           *)
(* (client.connect, client.close, client.listTools, client.callTool); the  *)
(* continuation after the round trip settles is one atomic step that runs  *)
(* up to the next such await.  An await of a call that completed without   *)
(* a round trip (connect() on the no-op path, disconnect() without a       *)
(* handle) is run as part of the same step.                                *)
(***************************************************************************)
EXTENDS Integers, Sequences, FiniteSets, Bags, TLC

VARIABLES
    cfg,          \* the OpenClawConfig's tools.toolServers: ordered descriptors
    conns,        \* heap of McpConnection objects, in creation order
    connections,  \* registry.ts `connections` Map, in insertion order
    tasks,        \* outstanding async invocations: a bag of task records
    nAttempts,    \* number of client.connect(transport) round trips started
    log,          \* messages passed to log.warn by initMcpRegistry
    ret,          \* outcome of the invocation that returned in the last step
    hist          \* history per connection object: attempts started, first list served

vars == <<cfg, conns, connections, tasks, nAttempts, log, ret, hist>>

----------------------------------------------------------------------------
(* Bounds of the model *)

MaxTasks == 2
MaxAttempts == 2
MaxConns == 2

----------------------------------------------------------------------------
(* Values *)

DEFAULT_TIMEOUT_MS == 30000

NoHandle == 0

\* cachedTools: Tool[] | null
Null == [isNull |-> TRUE, tools |-> <<>>]
ToolList(l) == [isNull |-> FALSE, tools |-> l]

Range(s) == {s[i] : i \in 1..Len(s)}

\* McpConnectionStatus
McpConnectionStatus == {"disconnected", "connecting", "connected", "error"}

\* new McpConnection(config): client = null, status = "disconnected",
\* cachedTools = null
McpConnection(config) ==
    [config |-> config, status |-> "disconnected", client |-> NoHandle,
     cachedTools |-> Null]

\* An optional field that is absent (undefined)
Undefined == -1

\* types.ts McpToolServerConfig: name, enabled?, tools?, timeoutMs?
\* enabled is "undefined", "true" or "false"; tools is absent or a list
NoTools == [present |-> FALSE, list |-> <<>>]
Allow(l) == [present |-> TRUE, list |-> l]
Descriptor(name, enabled, tools, timeoutMs) ==
    [name |-> name, enabled |-> enabled, tools |-> tools, timeoutMs |-> timeoutMs]

\* Errors: String(err) is "<name>: <message>"
Err(name, message) == [name |-> name, message |-> message]
NoErr == Err("", "")
String(err) == err.name \o ": " \o err.message
TransportError == Err("Error", "connection refused")
NotConnected(c) == Err("Error", "MCP server \"" \o c.config.name \o "\" not connected")
TimeoutError == Err("TimeoutError", "The operation was aborted due to timeout")
AbortError == Err("AbortError", "This operation was aborted")
ListFailed == Err("McpError", "tools/list failed")
CallFailed == Err("McpError", "network failure")

\* CallToolResult content items
Item(type, text, data, mimeType) ==
    [type |-> type, text |-> text, data |-> data, mimeType |-> mimeType]
TextItem(text) == Item("text", text, "", "")
ImageItem(data, mimeType) == Item("image", "", data, mimeType)
ResourceItem == Item("resource", "", "", "")

\* The raw results the remote peer may answer a tools/call with
CallResults ==
    { [content |-> <<TextItem("hello"), ImageItem("base64data", "image/png"),
                     ResourceItem>>,
       isError |-> FALSE],
      [content |-> <<TextItem("bad input"), ImageItem("base64data", "image/png")>>,
       isError |-> TRUE] }

\* Remote latencies of a tools/call and the descriptor timeouts tried: with
\* them an answer can arrive before, together with and after the timeout
Latencies == {1, DEFAULT_TIMEOUT_MS + 1}
TimeoutChoices == {Undefined, 1}

\* Remote capabilities (Tool objects, by name) and the lists a discovery
\* round trip may answer with
Tool(name) == [name |-> name]
ToolLists == { <<Tool("x")>>, <<Tool("x"), Tool("y")>> }

----------------------------------------------------------------------------
(* Outstanding invocations.  A task record holds the invocation's position   *)
(* (op, pc), its connection and the handle of its round trip (conn, h), for  *)
(* a callTool the caller's signal now and when the call began (sig, sig0),   *)
(* the sources of the signal given to the client, whether the timer went off *)
(* with the request pending, whether the call first awaited its own connect   *)
(* (lazy),                                                                    *)
(* for a disconnect the attempts started before it (n0), for an init its loop *)
(* index, the connections it made and the connects that failed, for a dispose *)
(* the connections it found registered (entries) and the closes it still      *)
(* awaits (pend), for an agent run the bridged tools it was given (tools).   *)

IdleTask ==
    [op |-> "none", pc |-> "idle", conn |-> 0, h |-> NoHandle, via |-> "direct",
     sig |-> "none", combined |-> {}, expired |-> FALSE,
     sig0 |-> "none", lazy |-> FALSE, n0 |-> 0, i |-> 0, pend |-> {},
     made |-> <<>>, fails |-> 0, entries |-> {}, tools |-> <<>>]

\* room for one more outstanding invocation
HasRoom == BagCardinality(tasks) < MaxTasks
Outstanding == BagToSet(tasks)
One(task) == SetToBag({task})

\* opts.existingToolNames of resolveMcpTools: absent, or a set of names
NoExisting == [present |-> FALSE, names |-> {}]
Existing(names) == [present |-> TRUE, names |-> names]

\* the outcome of an invocation, as its caller sees it: resolved or thrown,
\* with the error, the tool list (listTools), the content (callTool, execute)
\* or the bridged tools, the warned servers and the existing names it was
\* given (resolveMcpTools); for
\* initMcpRegistry also the connections it created and the connects that
\* failed; for callTool the caller's signal when the call began, the remote
\* latency of its request and whether it awaited its own connect; for
\* disconnect the number of connect attempts started while it ran; for
\* disposeMcpRegistry the connections it found registered
NoRet ==
    [op |-> "none", conn |-> 0, outcome |-> "none", err |-> NoErr, tools |-> Null,
     content |-> <<>>, isError |-> FALSE, details |-> "", agentTools |-> <<>>,
     warned |-> <<>>, made |-> <<>>, fails |-> 0, sig |-> "none", latency |-> 0,
     lazy |-> FALSE, during |-> 0, existing |-> NoExisting, entries |-> {}]
Ret(op, conn, outcome, err, tools, content, isError, details) ==
    [NoRet EXCEPT !.op = op, !.conn = conn, !.outcome = outcome, !.err = err,
                  !.tools = tools, !.content = content, !.isError = isError,
                  !.details = details]
Resolved(op, k, details) == Ret(op, k, "resolved", NoErr, Null, <<>>, FALSE, details)
Thrown(op, k, err) == Ret(op, k, "thrown", err, Null, <<>>, FALSE, "")

\* history of one connection object: connect attempts it started, and the
\* list its first successful listTools() since the last disconnect() returned
NoHist == [attempts |-> 0, listed |-> Null]

----------------------------------------------------------------------------
(* McpConnection (client.ts) *)

\* a connect() whose no-op path is taken only when already connected
ConnectIsNoopConnectedOnly(c) == c.status = "connected"

\* connect(), line 29: the no-op path
ConnectIsNoop(c) == c.status = "connecting" \/ c.status = "connected"

\* connect(), lines 32-33: a genuine attempt begins
ConnectBegin(c) == [c EXCEPT !.status = "connecting", !.cachedTools = Null]

\* connect(), lines 38-39: client.connect(transport) resolved
ConnectSucceeded(c, h) == [c EXCEPT !.client = h, !.status = "connected"]

\* a connect() whose catch block sets the status and leaves the handle alone
ConnectFailedKeepsHandle(c) == [c EXCEPT !.status = "error"]

\* connect(), lines 41-42: client.connect(transport) rejected
ConnectFailed(c) == [c EXCEPT !.status = "error", !.client = NoHandle]

\* disconnect(), lines 48-51
DisconnectFields(c) ==
    [c EXCEPT !.client = NoHandle, !.status = "disconnected", !.cachedTools = Null]

\* listTools() line 66, callTool() line 83: connect() is called first
NeedsConnect(c) == c.status # "connected" \/ c.client = NoHandle

\* callTool() line 90
TimeoutMs(c) ==
    IF c.config.timeoutMs = Undefined THEN DEFAULT_TIMEOUT_MS ELSE c.config.timeoutMs

\* a callTool() that hands the client the caller's signal alone
CombinedSignalCallerOnly(sig) ==
    IF sig # "none" /\ sig # "aborted" THEN {"caller"} ELSE {}

\* callTool() lines 93-97: the sources of the signal handed to the client.
\* sig is the caller's signal: "none" (absent), "live" or "aborted"
CombinedSignal(sig) ==
    IF sig # "none" /\ sig # "aborted" THEN {"caller", "timeout"} ELSE {"timeout"}

\* enabled descriptors of servers from index `from` on (registry.ts line 25)
RECURSIVE EnabledFrom(_, _)
EnabledFrom(servers, from) ==
    IF from > Len(servers) THEN 0
    ELSE (IF servers[from].enabled = "false" THEN 0 ELSE 1) + EnabledFrom(servers, from + 1)

\* connect attempts that one outstanding invocation will still start: an
\* initMcpRegistry for its remaining descriptors, a reconnect awaiting close
WillAttempt(task) ==
    IF task.op = "init" THEN EnabledFrom(cfg, task.i + 1)
    ELSE IF task.op = "reconnect" /\ task.pc = "close" THEN 1 ELSE 0

RECURSIVE SumWillAttempt(_)
SumWillAttempt(S) ==
    IF S = {} THEN 0
    ELSE LET task == CHOOSE x \in S : TRUE
         IN CopiesIn(task, tasks) * WillAttempt(task) + SumWillAttempt(S \ {task})

\* attempts (and handle ids) left for new invocations within the bound
AttemptsLeft == MaxAttempts - nAttempts - SumWillAttempt(BagToSet(tasks))

\* a genuine attempt of connection k starts on behalf of a new invocation
BeginAttempt(k, task) ==
    /\ AttemptsLeft >= 1
    /\ conns' = [conns EXCEPT ![k] = ConnectBegin(@)]
    /\ nAttempts' = nAttempts + 1
    /\ hist' = [hist EXCEPT ![k].attempts = @ + 1]
    /\ tasks' = tasks (+) One([task EXCEPT !.pc = "transport", !.conn = k,
                                           !.h = nAttempts + 1])
    /\ ret' = NoRet
    /\ UNCHANGED <<cfg, connections, log>>

\* connect() invoked on connection k
connect(k) ==
    /\ k \in 1..Len(conns)
    /\ HasRoom
    /\ IF ConnectIsNoop(conns[k])
       THEN /\ ret' = Resolved("connect", k, "noop")
            /\ UNCHANGED <<cfg, conns, connections, tasks, nAttempts, log, hist>>
       ELSE BeginAttempt(k, [IdleTask EXCEPT !.op = "connect"])

\* listTools() from line 69 on, c being the connection after the connect
\* step and rest the other outstanding invocations
ListProceed(rest, k, c) ==
    IF c.client = NoHandle
    THEN /\ conns' = [conns EXCEPT ![k] = c]
         /\ tasks' = rest
         /\ ret' = Thrown("listTools", k, NotConnected(c))
    ELSE /\ conns' = [conns EXCEPT ![k] = c]
         /\ tasks' = rest (+) One([IdleTask EXCEPT !.op = "listTools", !.pc = "list",
                                                   !.conn = k, !.h = c.client])
         /\ ret' = NoRet

\* listTools() invoked on connection k
listTools(k) ==
    /\ k \in 1..Len(conns)
    /\ HasRoom
    /\ IF ~conns[k].cachedTools.isNull
       THEN /\ ret' = Ret("listTools", k, "resolved", NoErr, conns[k].cachedTools,
                          <<>>, FALSE, "cached")
            /\ UNCHANGED <<cfg, conns, connections, tasks, nAttempts, log, hist>>
       ELSE IF NeedsConnect(conns[k]) /\ ~ConnectIsNoop(conns[k])
            THEN BeginAttempt(k, [IdleTask EXCEPT !.op = "listTools"])
            ELSE /\ ListProceed(tasks, k, conns[k])
                 /\ UNCHANGED <<cfg, connections, nAttempts, log, hist>>

\* client.listTools() resolved with the list tl: lines 74-75
listResolved(task, tl) ==
    /\ task.pc = "list"
    /\ LET k == task.conn IN
       /\ conns' = [conns EXCEPT ![k].cachedTools = ToolList(tl)]
       /\ ret' = Ret("listTools", k, "resolved", NoErr, ToolList(tl), <<>>, FALSE,
                     "fetched")
       /\ hist' = [hist EXCEPT ![k].listed = IF @.isNull THEN ToolList(tl) ELSE @]
    /\ tasks' = tasks (-) One(task)
    /\ UNCHANGED <<cfg, connections, nAttempts, log>>

\* client.listTools() rejected: the error propagates from line 73
listRejected(task) ==
    /\ task.pc = "list"
    /\ ret' = Thrown("listTools", task.conn, ListFailed)
    /\ tasks' = tasks (-) One(task)
    /\ UNCHANGED <<cfg, conns, connections, nAttempts, log, hist>>

\* disconnect() invoked on connection k: lines 48-52; without a handle it
\* returns at once, with one it awaits client.close()
disconnect(k) ==
    /\ k \in 1..Len(conns)
    /\ HasRoom
    /\ conns' = [conns EXCEPT ![k] = DisconnectFields(@)]
    /\ hist' = [hist EXCEPT ![k].listed = Null]
    /\ IF conns[k].client # NoHandle
       THEN /\ tasks' = tasks (+) One([IdleTask EXCEPT !.op = "disconnect",
                                          !.pc = "close", !.conn = k,
                                          !.h = conns[k].client, !.n0 = nAttempts])
            /\ ret' = NoRet
       ELSE /\ ret' = Resolved("disconnect", k, "nohandle")
            /\ tasks' = tasks
    /\ UNCHANGED <<cfg, connections, nAttempts, log>>

\* client.close() settled, lines 54-57: a close error is ignored
closeSettled(task, ok) ==
    /\ task.pc = "close"
    /\ task.op = "disconnect"
    /\ ret' = [Resolved("disconnect", task.conn, IF ok THEN "closed" ELSE "closeFailed")
                 EXCEPT !.during = nAttempts - task.n0]
    /\ tasks' = tasks (-) One(task)
    /\ UNCHANGED <<cfg, conns, connections, nAttempts, log, hist>>

----------------------------------------------------------------------------
(* Tool bridge (tool-bridge.ts) *)

\* a name transform that leaves the server name out
PrefixedNameNoServer(serverName, mcpTool) == "mcp__" \o mcpTool.name

\* line 21
PrefixedName(serverName, mcpTool) == "mcp__" \o serverName \o "__" \o mcpTool.name

\* mcpToolToAgentTool: the bridged tool, closed over connection k
mcpToolToAgentTool(serverName, mcpTool, k) ==
    [name |-> PrefixedName(serverName, mcpTool), tool |-> mcpTool.name, conn |-> k]

\* JSON.stringify of a content item of an unrecognized type
JsonStringify(item) == "{\"type\":\"" \o item.type \o "\"}"

\* lines 50-63
ConvertItem(item) ==
    IF item.type = "text" THEN TextItem(item.text)
    ELSE IF item.type = "image" THEN ImageItem(item.data, item.mimeType)
    ELSE TextItem(JsonStringify(item))

\* line 67: content.map(c => "text" in c ? c.text : "").join("\n")
RECURSIVE JoinText(_)
JoinText(content) ==
    IF content = <<>> THEN ""
    ELSE LET first == IF content[1].type = "text" THEN content[1].text ELSE ""
         IN IF Len(content) = 1 THEN first
            ELSE first \o "\n" \o JoinText(Tail(content))

\* an execute() without the try/catch of lines 40-47: a rejection of callFn
\* escapes to the caller
executeUncaught(r) ==
    IF r.outcome = "thrown"
    THEN [r EXCEPT !.op = "execute"]
    ELSE LET content == [i \in 1..Len(r.content) |-> ConvertItem(r.content[i])] IN
         IF r.isError
         THEN Ret("execute", r.conn, "resolved", NoErr, Null,
                  <<TextItem("MCP tool returned an error:\n" \o JoinText(content))>>,
                  FALSE, "isError")
         ELSE Ret("execute", r.conn, "resolved", NoErr, Null, content, FALSE, "null")

\* execute(), lines 39-74: r is the outcome of callFn
execute(r) ==
    IF r.outcome = "thrown"
    THEN Ret("execute", r.conn, "resolved", r.err, Null,
             <<TextItem("MCP tool error: " \o String(r.err))>>, FALSE, "error")
    ELSE LET content == [i \in 1..Len(r.content) |-> ConvertItem(r.content[i])] IN
         IF r.isError
         THEN Ret("execute", r.conn, "resolved", NoErr, Null,
                  <<TextItem("MCP tool returned an error:\n" \o JoinText(content))>>,
                  FALSE, "isError")
         ELSE Ret("execute", r.conn, "resolved", NoErr, Null, content, FALSE, "null")

\* what the caller of a callTool() sees: the bridge's execute() wraps the call
\* when the tool was invoked through a bridged tool
Outcome(via, r) == IF via = "bridge" THEN execute(r) ELSE r

\* the outcome r of the callTool() of task, as its caller sees it, together
\* with the state the caller's signal had when the call began and whether it
\* awaited its own connect
Returned(task, r) ==
    [Outcome(task.via, r) EXCEPT !.sig = task.sig0, !.lazy = task.lazy]

----------------------------------------------------------------------------
(* McpConnection.callTool *)

\* callTool() from line 86 on, c being the connection after the connect
\* step and rest the other outstanding invocations
CallProceed(rest, k, c, task) ==
    IF c.client = NoHandle
    THEN /\ conns' = [conns EXCEPT ![k] = c]
         /\ tasks' = rest
         /\ ret' = Returned(task, Thrown("callTool", k, NotConnected(c)))
    ELSE /\ conns' = [conns EXCEPT ![k] = c]
         /\ tasks' = rest (+) One([task EXCEPT !.pc = "call", !.conn = k,
                                      !.h = NoHandle,  \* the request's handle is not followed
                                      !.combined = CombinedSignal(task.sig)])
         /\ ret' = NoRet

\* a callTool() that, finding the connection connecting, waits for the
\* attempt in flight to settle instead of going on without a handle
callToolAwaitingAttempt(k, sig, via) ==
    /\ k \in 1..Len(conns)
    /\ HasRoom
    /\ LET task == [IdleTask EXCEPT !.op = "callTool", !.via = via, !.sig = sig,
                                   !.sig0 = sig] IN
       IF NeedsConnect(conns[k]) /\ ~ConnectIsNoop(conns[k])
       THEN BeginAttempt(k, [task EXCEPT !.lazy = TRUE])
       ELSE IF conns[k].status = "connecting"
            THEN /\ tasks' = tasks (+) One([task EXCEPT !.pc = "transport",
                                                        !.conn = k, !.lazy = TRUE])
                 /\ ret' = NoRet
                 /\ UNCHANGED <<cfg, conns, connections, nAttempts, log, hist>>
            ELSE /\ CallProceed(tasks, k, conns[k], task)
                 /\ UNCHANGED <<cfg, connections, nAttempts, log, hist>>

\* callTool(name, args, signal) invoked on connection k, directly or through
\* the execute() of a bridged tool
callTool(k, sig, via) ==
    /\ k \in 1..Len(conns)
    /\ HasRoom
    /\ LET task == [IdleTask EXCEPT !.op = "callTool", !.via = via, !.sig = sig,
                                   !.sig0 = sig] IN
       IF NeedsConnect(conns[k]) /\ ~ConnectIsNoop(conns[k])
       THEN BeginAttempt(k, [task EXCEPT !.lazy = TRUE])
       ELSE /\ CallProceed(tasks, k, conns[k], task)
            /\ UNCHANGED <<cfg, connections, nAttempts, log, hist>>

\* the remote peer answers a request after one of the Latencies, which is
\* known when the answer arrives.  The timer of AbortSignal.timeout(timeoutMs)
\* can go off with the request pending when some latency is no shorter
TimerDue(task) == \E lat \in Latencies : TimeoutMs(conns[task.conn]) <= lat
\* an answer after lat arrives no later than the timer, or the timer went off
ResponseDue(task, lat) == lat <= TimeoutMs(conns[task.conn]) \/ task.expired

\* the timeout signal fires; the client rejects the request when the signal
\* it was given has the timeout among its sources
timerExpires(task) ==
    /\ task.pc = "call"
    /\ ~task.expired
    /\ TimerDue(task)
    /\ IF "timeout" \in task.combined
       THEN /\ ret' = Returned(task, Thrown("callTool", task.conn, TimeoutError))
            /\ tasks' = tasks (-) One(task)
       ELSE /\ tasks' = (tasks (-) One(task)) (+) One([task EXCEPT !.expired = TRUE])
            /\ ret' = NoRet
    /\ UNCHANGED <<cfg, conns, connections, nAttempts, log, hist>>

\* the caller aborts its signal while its call is outstanding
callerAborts(task) ==
    /\ task.op = "callTool"
    /\ task.sig = "live"
    /\ IF task.pc = "call" /\ "caller" \in task.combined
       THEN /\ ret' = Returned(task, Thrown("callTool", task.conn, AbortError))
            /\ tasks' = tasks (-) One(task)
       ELSE /\ tasks' = (tasks (-) One(task)) (+) One([task EXCEPT !.sig = "aborted"])
            /\ ret' = NoRet
    /\ UNCHANGED <<cfg, conns, connections, nAttempts, log, hist>>

\* client.callTool() resolved after lat with the raw result r: line 104
callResolved(task, r, lat) ==
    /\ task.pc = "call"
    /\ ResponseDue(task, lat)
    /\ ret' = [Returned(task,
                       Ret("callTool", task.conn, "resolved", NoErr, Null,
                           r.content, r.isError, "raw"))
                 EXCEPT !.latency = lat]
    /\ tasks' = tasks (-) One(task)
    /\ UNCHANGED <<cfg, conns, connections, nAttempts, log, hist>>

\* client.callTool() rejected by the transport: the error propagates from line 99
callRejected(task) ==
    /\ task.pc = "call"
    /\ ret' = Returned(task, Thrown("callTool", task.conn, CallFailed))
    /\ tasks' = tasks (-) One(task)
    /\ UNCHANGED <<cfg, conns, connections, nAttempts, log, hist>>

\* client.connect(transport) settled for the attempt that a connect() or a
\* listTools() awaits: connect() lines 38-44, then the caller's continuation
transportSettled(task, ok) ==
    /\ task.pc = "transport"
    /\ task.op \in {"connect", "listTools"}
    /\ LET k == task.conn
           c == IF ok THEN ConnectSucceeded(conns[k], task.h)
                      ELSE ConnectFailed(conns[k])
           rest == tasks (-) One(task)
       IN IF task.op = "connect"
          THEN /\ conns' = [conns EXCEPT ![k] = c]
               /\ tasks' = rest
               /\ ret' = IF ok THEN Resolved("connect", k, "connected")
                               ELSE Thrown("connect", k, TransportError)
          ELSE IF ok THEN ListProceed(rest, k, c)
               ELSE /\ conns' = [conns EXCEPT ![k] = c]
                    /\ tasks' = rest
                    /\ ret' = Thrown("listTools", k, TransportError)
    /\ UNCHANGED <<cfg, connections, nAttempts, log, hist>>

\* a settling in which callTool() swallows the rejection of its connect()
\* and goes on to the handle check of line 86
callTransportSettledSwallowing(task, ok) ==
    /\ task.pc = "transport"
    /\ task.op = "callTool"
    /\ LET k == task.conn
           c == IF ok THEN ConnectSucceeded(conns[k], task.h)
                      ELSE ConnectFailed(conns[k])
           rest == tasks (-) One(task)
       IN CallProceed(rest, k, c, task)
    /\ UNCHANGED <<cfg, connections, nAttempts, log, hist>>

\* the same for the attempt that a callTool() awaits (line 84)
callTransportSettled(task, ok) ==
    /\ task.pc = "transport"
    /\ task.op = "callTool"
    /\ LET k == task.conn
           c == IF ok THEN ConnectSucceeded(conns[k], task.h)
                      ELSE ConnectFailed(conns[k])
           rest == tasks (-) One(task)
       IN IF ok THEN CallProceed(rest, k, c, task)
          ELSE /\ conns' = [conns EXCEPT ![k] = c]
               /\ tasks' = rest
               /\ ret' = Returned(task, Thrown("callTool", k, TransportError))
    /\ UNCHANGED <<cfg, connections, nAttempts, log, hist>>

----------------------------------------------------------------------------
(* Registry (registry.ts) *)

\* Map.get on `connections`: the connection registered under name, 0 if none
RECURSIVE MapGet(_, _)
MapGet(m, name) ==
    IF m = <<>> THEN 0
    ELSE IF m[1].name = name THEN m[1].conn ELSE MapGet(Tail(m), name)

\* Map.set: an existing key keeps its place, a new key goes last
MapSet(m, name, k) ==
    IF \E i \in 1..Len(m) : m[i].name = name
    THEN [i \in 1..Len(m) |-> IF m[i].name = name THEN [m[i] EXCEPT !.conn = k] ELSE m[i]]
    ELSE Append(m, [name |-> name, conn |-> k])

Registered == {connections[i].conn : i \in 1..Len(connections)}

\* getServerConfigs(cfg), line 10
getServerConfigs(c) == c

\* an initMcpRegistry without the test of lines 25-27: every descriptor is
\* taken
NextEnabledUnchecked(servers, from) == from

\* the next descriptor at or after index `from` with enabled !== false
\* (lines 24-27), Len + 1 when there is none
RECURSIVE NextEnabled(_, _)
NextEnabled(servers, from) ==
    IF from > Len(servers) THEN from
    ELSE IF servers[from].enabled = "false" THEN NextEnabled(servers, from + 1)
    ELSE from

\* line 33: the warning logged for a server whose connect failed
InitWarning(server, err) ==
    "MCP server \"" \o server.name \o "\" failed to connect: " \o String(err)

\* initMcpRegistry, the loop of lines 24-35 from descriptor `from` on, up to
\* the next await of conn.connect(): heap and warnings are the connections
\* and the log as the step found or made them, rest the other invocations
InitLoop(rest, task, from, heap, warnings) ==
    LET servers == getServerConfigs(cfg)
        j == NextEnabled(servers, from)
        k == Len(heap) + 1
    IN IF j > Len(servers)
       THEN /\ conns' = heap
            /\ log' = warnings
            /\ tasks' = rest
            /\ ret' = [Resolved("init", 0, "") EXCEPT !.made = task.made,
                                                      !.fails = task.fails]
            /\ UNCHANGED <<connections, nAttempts, hist>>
       ELSE /\ conns' = Append(heap, ConnectBegin(McpConnection(servers[j])))
            /\ connections' = MapSet(connections, servers[j].name, k)
            /\ nAttempts' = nAttempts + 1
            /\ hist' = Append(hist, [NoHist EXCEPT !.attempts = 1])
            /\ log' = warnings
            /\ tasks' = rest (+) One([task EXCEPT !.pc = "transport", !.conn = k,
                                          !.h = nAttempts + 1, !.i = j,
                                          !.made = Append(@, k)])
            /\ ret' = NoRet

\* initMcpRegistry(cfg, log) invoked
initMcpRegistry ==
    /\ HasRoom
    /\ Len(conns) + EnabledFrom(cfg, 1) <= MaxConns
    /\ AttemptsLeft >= EnabledFrom(cfg, 1)
    /\ InitLoop(tasks, [IdleTask EXCEPT !.op = "init"], 1, conns, log)
    /\ UNCHANGED cfg

\* an initMcpRegistry without the try/catch of lines 30-34: the failure of a
\* connect() escapes, nothing is logged and the loop stops
initConnectSettledUncaught(task, ok) ==
    /\ task.pc = "transport"
    /\ task.op = "init"
    /\ LET k == task.conn
           rest == tasks (-) One(task)
       IN IF ok
          THEN InitLoop(rest, task, task.i + 1,
                        [conns EXCEPT ![k] = ConnectSucceeded(conns[k], task.h)], log)
          ELSE /\ conns' = [conns EXCEPT ![k] = ConnectFailed(conns[k])]
               /\ tasks' = rest
               /\ ret' = [Thrown("init", 0, TransportError)
                             EXCEPT !.made = task.made, !.fails = task.fails + 1]
               /\ UNCHANGED <<connections, nAttempts, hist, log>>
    /\ UNCHANGED cfg

\* the connect() awaited at line 31 settled: lines 32-34, then the loop goes on
initConnectSettled(task, ok) ==
    /\ task.pc = "transport"
    /\ task.op = "init"
    /\ LET k == task.conn
           c == IF ok THEN ConnectSucceeded(conns[k], task.h)
                      ELSE ConnectFailed(conns[k])
       IN InitLoop(tasks (-) One(task),
                   [task EXCEPT !.fails = IF ok THEN @ ELSE @ + 1],
                   task.i + 1,
                   [conns EXCEPT ![k] = c],
                   IF ok THEN log
                   ELSE Append(log, InitWarning(conns[k].config, TransportError)))
    /\ UNCHANGED cfg

\* disposeMcpRegistry(), lines 40-42: every disconnect() runs its lines 48-52
\* at once; the closes of the handles it found are awaited together
disposeMcpRegistry ==
    /\ HasRoom
    /\ LET entries == Registered
           handles == {conns[k].client : k \in entries} \ {NoHandle}
       IN /\ connections' = <<>>
          /\ conns' = [k \in 1..Len(conns) |->
                          IF k \in entries THEN DisconnectFields(conns[k]) ELSE conns[k]]
          /\ hist' = [k \in 1..Len(hist) |->
                          IF k \in entries THEN [hist[k] EXCEPT !.listed = Null]
                          ELSE hist[k]]
          /\ IF handles = {}
             THEN /\ ret' = [Resolved("dispose", 0, "") EXCEPT !.entries = entries]
                  /\ tasks' = tasks
             ELSE /\ ret' = NoRet
                  /\ tasks' = tasks (+) One([IdleTask EXCEPT !.op = "dispose",
                                                !.pc = "close", !.pend = handles,
                                                !.entries = entries])
    /\ UNCHANGED <<cfg, nAttempts, log>>

\* one client.close() of a dispose settled; the last one lets dispose return
disposeCloseSettled(task, h, ok) ==
    /\ task.pc = "close"
    /\ task.op = "dispose"
    /\ h \in task.pend
    /\ IF task.pend = {h}
       THEN /\ ret' = [Resolved("dispose", 0, "") EXCEPT !.entries = task.entries]
            /\ tasks' = tasks (-) One(task)
       ELSE /\ ret' = NoRet
            /\ tasks' = (tasks (-) One(task)) (+) One([task EXCEPT !.pend = @ \ {h}])
    /\ UNCHANGED <<cfg, conns, connections, nAttempts, log, hist>>

\* tryGetCachedTools(conn), lines 119-124
tryGetCachedTools(c) == c.cachedTools

\* new Map(serverConfigs.map(s => [s.name, s])).get(name), line 72 and 78:
\* the last descriptor of that name; found is FALSE when there is none
RECURSIVE ConfigByName(_, _)
ConfigByName(servers, name) ==
    IF servers = <<>> THEN [found |-> FALSE, enabled |-> "undefined", tools |-> NoTools]
    ELSE LET last == servers[Len(servers)] IN
         IF last.name = name
         THEN [found |-> TRUE, enabled |-> last.enabled, tools |-> last.tools]
         ELSE ConfigByName(SubSeq(servers, 1, Len(servers) - 1), name)

\* line 97: allowedTools && !allowedTools.includes(mcpTool.name)
ExcludedByAllowlist(allowedTools, mcpTool) ==
    allowedTools.present /\ mcpTool.name \notin Range(allowedTools.list)

\* a resolveMcpTools that does not look at existingToolNames
ExcludedByExistingNever(existing, agentTool) == FALSE

\* lines 103-106: existingToolNames is absent or a set of names
ExcludedByExisting(existing, agentTool) ==
    existing.present /\ agentTool.name \in existing.names

\* lines 96-110 for one server: the bridged tools it contributes
RECURSIVE ServerTools(_, _, _, _, _)
ServerTools(name, k, cachedList, allowedTools, existing) ==
    IF cachedList = <<>> THEN <<>>
    ELSE LET mcpTool == cachedList[1]
             others == ServerTools(name, k, Tail(cachedList), allowedTools, existing)
             agentTool == mcpToolToAgentTool(name, mcpTool, k)
         IN IF ExcludedByAllowlist(allowedTools, mcpTool) THEN others
            ELSE IF ExcludedByExisting(existing, agentTool) THEN others
            ELSE <<agentTool>> \o others

\* lines 77-111 over the entries m of the Map: the tools pushed and the
\* servers warned about, in iteration order
RECURSIVE ResolveEntries(_, _, _, _)
ResolveEntries(m, servers, heap, existing) ==
    IF m = <<>> THEN [tools |-> <<>>, warned |-> <<>>]
    ELSE LET name == m[1].name
             k == m[1].conn
             serverCfg == ConfigByName(servers, name)
             others == ResolveEntries(Tail(m), servers, heap, existing)
             cachedList == tryGetCachedTools(heap[k])
         IN IF serverCfg.found /\ serverCfg.enabled = "false" THEN others
            ELSE IF cachedList.isNull
                 THEN [others EXCEPT !.warned = <<name>> \o @]
            ELSE [others EXCEPT !.tools =
                     ServerTools(name, k, cachedList.tools, serverCfg.tools, existing)
                     \o @]

\* resolveMcpTools(cfg, opts), lines 62-113, as a function of what it reads
ResolveTools(servers, m, heap, existing) ==
    IF Len(m) = 0 THEN [tools |-> <<>>, warned |-> <<>>]
    ELSE ResolveEntries(m, getServerConfigs(servers), heap, existing)

\* a resolveMcpTools that starts a discovery round trip for every registered
\* connection that has a handle and no cache
resolveMcpToolsFetching(existing) ==
    /\ LET r == ResolveTools(cfg, connections, conns, existing)
       IN ret' = [Resolved("resolve", 0, "") EXCEPT !.agentTools = r.tools,
                                                    !.warned = r.warned,
                                                    !.existing = existing]
    /\ tasks' = tasks (+) SetToBag({ [IdleTask EXCEPT !.op = "listTools",
                                                      !.pc = "list", !.conn = k,
                                                      !.h = conns[k].client] :
                                     k \in { j \in Registered :
                                               /\ conns[j].cachedTools.isNull
                                               /\ conns[j].client # NoHandle } })
    /\ UNCHANGED <<cfg, conns, connections, nAttempts, log, hist>>

\* resolveMcpTools(cfg, {existingToolNames, log}) invoked
resolveMcpTools(existing) ==
    /\ LET r == ResolveTools(cfg, connections, conns, existing)
       IN ret' = [Resolved("resolve", 0, "") EXCEPT !.agentTools = r.tools,
                                                    !.warned = r.warned,
                                                    !.existing = existing]
    /\ UNCHANGED <<cfg, conns, connections, tasks, nAttempts, log, hist>>

----------------------------------------------------------------------------
(* CLI (mcp-cli.ts): mcp reconnect, lines 309-322, for one target *)

\* conn.disconnect() of line 316, then conn.connect() of line 317 when the
\* connection held no handle to close
reconnect(k) ==
    /\ k \in Registered
    /\ HasRoom
    /\ AttemptsLeft >= 1
    /\ hist' = [hist EXCEPT ![k].listed = Null,
                            ![k].attempts = IF conns[k].client # NoHandle THEN @ ELSE @ + 1]
    /\ IF conns[k].client # NoHandle
       THEN /\ conns' = [conns EXCEPT ![k] = DisconnectFields(@)]
            /\ tasks' = tasks (+) One([IdleTask EXCEPT !.op = "reconnect",
                                          !.pc = "close", !.conn = k,
                                          !.h = conns[k].client])
            /\ nAttempts' = nAttempts
       ELSE /\ conns' = [conns EXCEPT ![k] = ConnectBegin(DisconnectFields(@))]
            /\ tasks' = tasks (+) One([IdleTask EXCEPT !.op = "reconnect",
                                          !.pc = "transport", !.conn = k,
                                          !.h = nAttempts + 1])
            /\ nAttempts' = nAttempts + 1
    /\ ret' = NoRet
    /\ UNCHANGED <<cfg, connections, log>>

\* the close awaited by line 316 settled: conn.connect() of line 317
reconnectCloseSettled(task, ok) ==
    /\ task.pc = "close"
    /\ task.op = "reconnect"
    /\ LET k == task.conn IN
       IF ConnectIsNoop(conns[k])
       THEN /\ ret' = Resolved("reconnect", k, "reconnected")
            /\ tasks' = tasks (-) One(task)
            /\ UNCHANGED <<conns, nAttempts, hist>>
       ELSE /\ conns' = [conns EXCEPT ![k] = ConnectBegin(@)]
            /\ nAttempts' = nAttempts + 1
            /\ hist' = [hist EXCEPT ![k].attempts = @ + 1]
            /\ tasks' = (tasks (-) One(task)) (+)
                        One([task EXCEPT !.pc = "transport", !.h = nAttempts + 1])
            /\ ret' = NoRet
    /\ UNCHANGED <<cfg, connections, log>>

\* the connect awaited by line 317 settled: line 318 or the catch of line 319
reconnectTransportSettled(task, ok) ==
    /\ task.pc = "transport"
    /\ task.op = "reconnect"
    /\ LET k == task.conn IN
       /\ conns' = [conns EXCEPT ![k] = IF ok THEN ConnectSucceeded(@, task.h)
                                              ELSE ConnectFailed(@)]
       /\ ret' = Resolved("reconnect", k, IF ok THEN "reconnected" ELSE "failed")
    /\ tasks' = tasks (-) One(task)
    /\ UNCHANGED <<cfg, connections, nAttempts, log, hist>>

----------------------------------------------------------------------------
(* One McpConnection used by overlapping callers *)

InitConnection ==
    /\ \E tm \in TimeoutChoices :
          /\ cfg = <<Descriptor("alpha", "undefined", NoTools, tm)>>
          /\ conns = <<McpConnection(cfg[1])>>
    /\ connections = <<>>
    /\ tasks = EmptyBag
    /\ nAttempts = 0
    /\ log = <<>>
    /\ ret = NoRet
    /\ hist = <<NoHist>>

\* via: the calls are made directly, or through the execute() of bridged tools
NextVia(via) ==
    \/ \E k \in 1..Len(conns) : connect(k)
    \/ \E k \in 1..Len(conns) : disconnect(k)
    \/ \E k \in 1..Len(conns) : listTools(k)
    \/ \E k \in 1..Len(conns), sig \in {"none", "live", "aborted"} :
          callTool(k, sig, via)
    \/ \E task \in Outstanding, ok \in BOOLEAN : transportSettled(task, ok)
    \/ \E task \in Outstanding, ok \in BOOLEAN : callTransportSettled(task, ok)
    \/ \E task \in Outstanding, ok \in BOOLEAN : closeSettled(task, ok)
    \/ \E task \in Outstanding, tl \in ToolLists : listResolved(task, tl)
    \/ \E task \in Outstanding : listRejected(task)
    \/ \E task \in Outstanding : timerExpires(task)
    \/ \E task \in Outstanding : callerAborts(task)
    \/ \E task \in Outstanding, r \in CallResults, lat \in Latencies :
          callResolved(task, r, lat)
    \/ \E task \in Outstanding : callRejected(task)

NextConnection == NextVia("direct")

Spec == InitConnection /\ [][NextConnection]_vars

\* every attempt that client.connect(transport) started settles
Settles ==
    /\ WF_vars(\E task \in Outstanding, ok \in BOOLEAN : transportSettled(task, ok))
    /\ WF_vars(\E task \in Outstanding, ok \in BOOLEAN :
                  callTransportSettled(task, ok))

FairSpec == Spec /\ Settles

\* the agent loop executes bridged tools of the connection
NextBridge == NextVia("bridge")

SpecBridge == InitConnection /\ [][NextBridge]_vars

----------------------------------------------------------------------------
(* The registry of one process: init, dispose, resolve, and the CLI's use *)
(* of registered connections                                             *)

Configs ==
    { <<Descriptor("alpha", "undefined", NoTools, Undefined),
        Descriptor("beta", "false", NoTools, Undefined)>>,
      <<Descriptor("alpha", "true", Allow(<<"y">>), Undefined),
        Descriptor("beta", "undefined", Allow(<<>>), Undefined)>>,
      <<Descriptor("alpha", "undefined", NoTools, Undefined),
        Descriptor("alpha", "undefined", Allow(<<"x">>), Undefined)>> }

ExistingChoices == {NoExisting, Existing({"mcp__alpha__x"})}

InitRegistry ==
    /\ cfg \in Configs
    /\ conns = <<>>
    /\ connections = <<>>
    /\ tasks = EmptyBag
    /\ nAttempts = 0
    /\ log = <<>>
    /\ ret = NoRet
    /\ hist = <<>>

NextRegistry ==
    \/ initMcpRegistry
    \/ disposeMcpRegistry
    \/ \E existing \in ExistingChoices : resolveMcpTools(existing)
    \/ \E k \in Registered : listTools(k)
    \/ \E k \in Registered : reconnect(k)
    \/ \E task \in Outstanding, ok \in BOOLEAN : initConnectSettled(task, ok)
    \/ \E task \in Outstanding, ok \in BOOLEAN : transportSettled(task, ok)
    \/ \E task \in Outstanding, ok \in BOOLEAN : reconnectCloseSettled(task, ok)
    \/ \E task \in Outstanding, ok \in BOOLEAN : reconnectTransportSettled(task, ok)
    \/ \E task \in Outstanding, h \in 1..MaxAttempts, ok \in BOOLEAN :
          disposeCloseSettled(task, h, ok)
    \/ \E task \in Outstanding, tl \in ToolLists : listResolved(task, tl)
    \/ \E task \in Outstanding : listRejected(task)

SpecRegistry == InitRegistry /\ [][NextRegistry]_vars

\* the registry while nothing disposes it: initMcpRegistry, the reads of the
\* registry and the operations on registered connections
NextInit ==
    \/ initMcpRegistry
    \/ \E existing \in ExistingChoices : resolveMcpTools(existing)
    \/ \E k \in Registered : listTools(k)
    \/ \E k \in Registered : reconnect(k)
    \/ \E task \in Outstanding, ok \in BOOLEAN : initConnectSettled(task, ok)
    \/ \E task \in Outstanding, ok \in BOOLEAN : transportSettled(task, ok)
    \/ \E task \in Outstanding, ok \in BOOLEAN : reconnectCloseSettled(task, ok)
    \/ \E task \in Outstanding, ok \in BOOLEAN : reconnectTransportSettled(task, ok)
    \/ \E task \in Outstanding, tl \in ToolLists : listResolved(task, tl)
    \/ \E task \in Outstanding : listRejected(task)

SpecInit == InitRegistry /\ [][NextInit]_vars

\* An agent run is given the array that resolveMcpTools returns (lines 66,
\* 112) and keeps it while it runs
agentResolves(existing) ==
    /\ HasRoom
    /\ LET r == ResolveTools(cfg, connections, conns, existing)
       IN /\ ret' = [Resolved("resolve", 0, "") EXCEPT !.agentTools = r.tools,
                                                       !.warned = r.warned,
                                                       !.existing = existing]
          /\ tasks' = tasks (+) One([IdleTask EXCEPT !.op = "agent", !.pc = "run",
                                                     !.tools = r.tools])
    /\ UNCHANGED <<cfg, conns, connections, nAttempts, log, hist>>

\* the run executes one of its tools: the callFn of lines 100-102 calls
\* callTool() on the connection the tool was bridged from
agentExecutes(task, i, sig) ==
    /\ task.op = "agent"
    /\ i \in 1..Len(task.tools)
    /\ callTool(task.tools[i].conn, sig, "bridge")

\* the registry with agent runs that keep and execute the tools resolved for
\* them, while the registry is initialized and disposed
NextAgent ==
    \/ initMcpRegistry
    \/ disposeMcpRegistry
    \/ agentResolves(NoExisting)
    \/ \E task \in Outstanding, i \in 1..2, sig \in {"none", "live"} :
          agentExecutes(task, i, sig)
    \/ \E k \in Registered : listTools(k)
    \/ \E task \in Outstanding, ok \in BOOLEAN : initConnectSettled(task, ok)
    \/ \E task \in Outstanding, ok \in BOOLEAN : transportSettled(task, ok)
    \/ \E task \in Outstanding, ok \in BOOLEAN : callTransportSettled(task, ok)
    \/ \E task \in Outstanding, h \in 1..MaxAttempts, ok \in BOOLEAN :
          disposeCloseSettled(task, h, ok)
    \/ \E task \in Outstanding, tl \in ToolLists : listResolved(task, tl)
    \/ \E task \in Outstanding : listRejected(task)
    \/ \E task \in Outstanding : timerExpires(task)
    \/ \E task \in Outstanding : callerAborts(task)
    \/ \E task \in Outstanding, r \in CallResults, lat \in Latencies :
          callResolved(task, r, lat)
    \/ \E task \in Outstanding : callRejected(task)

\* one enabled server, nothing registered yet
InitAgent ==
    /\ cfg = <<Descriptor("alpha", "undefined", NoTools, Undefined)>>
    /\ conns = <<>>
    /\ connections = <<>>
    /\ tasks = EmptyBag
    /\ nAttempts = 0
    /\ log = <<>>
    /\ ret = NoRet
    /\ hist = <<>>

SpecAgent == InitAgent /\ [][NextAgent]_vars

\* The name transform of the bridge on its own: two servers with names drawn
\* from ServerNames, and one capability drawn from CapabilityNames bridged
\* under both
ServerNames == {"alpha", "beta", "myserver", "a", "a__b"}
CapabilityNames == {"search", "my_tool", "x", "b__x", "__x"}

InitNames ==
    /\ cfg \in { <<Descriptor(s1, "undefined", NoTools, Undefined),
                   Descriptor(s2, "undefined", NoTools, Undefined)>> :
                     s1 \in ServerNames, s2 \in ServerNames }
    /\ conns = [k \in 1..2 |-> McpConnection(cfg[k])]
    /\ connections = <<>>
    /\ tasks = EmptyBag
    /\ nAttempts = 0
    /\ log = <<>>
    /\ ret = NoRet
    /\ hist = <<NoHist, NoHist>>

\* mcpToolToAgentTool(name, mcpTool, callFn) for the capability under each server
bridgeCapability(mcpTool) ==
    /\ ret' = [Resolved("bridge", 0, "") EXCEPT !.agentTools =
                  [k \in DOMAIN conns |->
                      mcpToolToAgentTool(conns[k].config.name, mcpTool, k)]]
    /\ UNCHANGED <<cfg, conns, connections, tasks, nAttempts, log, hist>>

NextNames == \E c \in CapabilityNames : bridgeCapability(Tool(c))

SpecNames == InitNames /\ [][NextNames]_vars


\* The registry over servers and capabilities whose names may contain the
\* separator of the name transform: two descriptors with names drawn from
\* ServerNames, the second enabled or not, discovery answering with lists of capabilities of
\* CapabilityNames
NameLists == { <<Tool("x")>>, <<Tool("b__x")>>, <<Tool("b__x"), Tool("search")>> }

InitResolve ==
    /\ cfg \in { <<Descriptor(s1, "undefined", NoTools, Undefined),
                   Descriptor(s2, e2, NoTools, Undefined)>> :
                     s1 \in ServerNames, s2 \in ServerNames,
                     e2 \in {"undefined", "false"} }
    /\ conns = <<>>
    /\ connections = <<>>
    /\ tasks = EmptyBag
    /\ nAttempts = 0
    /\ log = <<>>
    /\ ret = NoRet
    /\ hist = <<>>

NextResolve ==
    \/ initMcpRegistry
    \/ resolveMcpTools(NoExisting)
    \/ \E k \in Registered : listTools(k)
    \/ \E task \in Outstanding, ok \in BOOLEAN : initConnectSettled(task, ok)
    \/ \E task \in Outstanding, ok \in BOOLEAN : transportSettled(task, ok)
    \/ \E task \in Outstanding, tl \in NameLists : listResolved(task, tl)
    \/ \E task \in Outstanding : listRejected(task)

SpecResolve == InitResolve /\ [][NextResolve]_vars

----------------------------------------------------------------------------
(* Properties *)

\* the connect() that the initMcpRegistry `task` awaits fails in this step
InitConnectFails(task) ==
    /\ task.op = "init"
    /\ task.pc = "transport"
    /\ task \notin BagToSet(tasks')
    /\ conns'[task.conn].status = "error"

\* C1: initMcpRegistry isolates per-server failures.  Whatever the descriptor
\* list and whichever connects fail, (a) a connection comes into being only
\* for a descriptor with enabled !== false, registered under the descriptor's
\* name and with exactly one connect attempt started for it; (b) a failed
\* connect of init appends exactly one warning, naming the server, and
\* nothing else is logged; (c) when init returns it has resolved and has
\* created one connection per enabled descriptor, in descriptor order,
\* whether or not earlier connects failed.
C1_InitIsolatesFailures ==
    [][ /\ \A k \in (DOMAIN conns') \ (DOMAIN conns) :
              /\ Len(conns') = Len(conns) + 1
              /\ conns'[k].config.enabled # "false"
              /\ MapGet(connections', conns'[k].config.name) = k
              /\ conns'[k].status = "connecting"
              /\ hist'[k].attempts = 1
              /\ nAttempts' = nAttempts + 1
        /\ \A task \in Outstanding :
              InitConnectFails(task) =>
                  log' = Append(log, InitWarning(conns[task.conn].config,
                                                 TransportError))
        /\ (\A task \in Outstanding : ~InitConnectFails(task)) => log' = log
        /\ ret'.op = "init" =>
              /\ ret'.outcome = "resolved"
              /\ LET enabled == SelectSeq(getServerConfigs(cfg),
                                          LAMBDA s : s.enabled # "false")
                 IN /\ Len(ret'.made) = Len(enabled)
                    /\ \A j \in 1..Len(enabled) :
                          /\ conns'[ret'.made[j]].config = enabled[j]
                          /\ hist'[ret'.made[j]].attempts >= 1
                    /\ \A i, j \in 1..Len(enabled) :
                          ret'.made[i] = ret'.made[j] => i = j
      ]_vars

\* init has returned after the connect of its first server failed and the
\* connect of its second server succeeded
C1_Witness ==
    /\ ret.op = "init"
    /\ ret.outcome = "resolved"
    /\ ret.fails = 1
    /\ Len(ret.made) = 2
    /\ conns[ret.made[1]].status = "error"
    /\ conns[ret.made[2]].status = "connected"
    /\ Len(log) = 1

\* the transport establishment attempt that `task` awaits settles in this step
AttemptSettles(task) ==
    /\ task.pc = "transport"
    /\ ~\E t \in BagToSet(tasks') : t.pc = "transport" /\ t.h = task.h

\* C2: connect() is idempotent.  (a) An attempt starts on a connection only
\* from status disconnected or error, so overlapping connect() calls start one
\* attempt; (b) a connect() invoked while connecting or connected returns at
\* once and changes nothing; (c) the step in which an attempt settles leaves
\* the status connected or error; (d) a connection is connecting only while
\* an attempt is in flight, and (e) when the transport settles every attempt
\* (Settles), a connecting connection always leaves that status.
C2_ConnectIdempotent ==
    /\ [][  /\ \A k \in DOMAIN conns :
                  hist'[k].attempts > hist[k].attempts =>
                      /\ conns[k].status \in {"disconnected", "error"}
                      /\ hist'[k].attempts = hist[k].attempts + 1
            /\ (ret'.op = "connect" /\ ret'.details = "noop") =>
                  /\ conns[ret'.conn].status \in {"connecting", "connected"}
                  /\ UNCHANGED <<cfg, conns, connections, tasks, nAttempts, log, hist>>
            /\ (ret'.op = "connect" /\ ret'.details # "noop") =>
                  \E task \in Outstanding : task.op = "connect" /\ AttemptSettles(task)
            /\ \A task \in Outstanding :
                  AttemptSettles(task) =>
                      conns'[task.conn].status \in {"connected", "error"}
          ]_vars
    /\ [](\A k \in DOMAIN conns :
            conns[k].status = "connecting" =>
                \E task \in Outstanding : task.pc = "transport" /\ task.conn = k)
    /\ (\E k \in DOMAIN conns : conns[k].status = "connecting")
          ~> (\A k \in DOMAIN conns : conns[k].status # "connecting")

\* a second connect() has just returned while the attempt of the first is in
\* flight: one attempt was started
C2_Witness ==
    /\ ret.op = "connect"
    /\ ret.details = "noop"
    /\ conns[ret.conn].status = "connecting"
    /\ hist[ret.conn].attempts = 1
    /\ \E task \in Outstanding :
          /\ task.op = "connect" /\ task.pc = "transport" /\ task.conn = ret.conn
          /\ \A other \in Outstanding : other.pc = "transport" => other = task

\* C3: disconnect() always succeeds and, at the moment it returns to its
\* caller, the connection has status disconnected, no handle and a null cache,
\* whatever was in flight on the connection when it was invoked (no connect
\* attempt having been started while it ran).
C3_DisconnectedAtReturn ==
    (ret.op = "disconnect" /\ ret.during = 0) =>
        /\ ret.outcome = "resolved"
        /\ conns[ret.conn].status = "disconnected"
        /\ conns[ret.conn].client = NoHandle
        /\ conns[ret.conn].cachedTools.isNull

\* C4: executing a bridged tool always resolves and never throws.  Whatever
\* the underlying call did (result, result with isError, failed lazy connect,
\* not connected, timeout, caller cancellation, transport failure), what the
\* caller of execute() gets is a resolved content result of text and image
\* items, and a failure propagated by the call has become exactly one text
\* item that describes the error.
C4_ExecuteAlwaysResolves ==
    /\ ret.op # "callTool"
    /\ ret.op = "execute" =>
          /\ ret.outcome = "resolved"
          /\ \A i \in DOMAIN ret.content : ret.content[i].type \in {"text", "image"}
          /\ ret.err # NoErr =>
                ret.content = <<TextItem("MCP tool error: " \o String(ret.err))>>

\* the caller cancelled a bridged call in flight: execute() has returned the
\* cancellation as one text item
C4_Witness ==
    /\ ret.op = "execute"
    /\ ret.outcome = "resolved"
    /\ ret.err = AbortError
    /\ ret.content = <<TextItem("MCP tool error: AbortError: This operation was aborted")>>

\* C5: a callTool() on a connection with a live handle runs the remote
\* invocation under the timeout composed with the caller's live signal.  (a)
\* The signal of a request in flight has the timeout among its sources, and
\* the caller's signal too when the call found a handle and a signal that was
\* live; (b) no request stays in flight after its timer went off, nor, for
\* such a call, after its caller cancelled: the call has failed with the
\* cancellation error; (c) a result is returned only if the remote answered
\* no later than the timeout, so a call whose timeout is shorter than the
\* remote latency never returns a result.
C5_TimeoutAndCancelComposed ==
    /\ \A task \in Outstanding :
          task.pc = "call" =>
              /\ "timeout" \in task.combined
              /\ ~task.expired
              /\ (task.sig0 = "live" /\ ~task.lazy) =>
                    ("caller" \in task.combined /\ task.sig = "live")
    /\ (ret.op = "callTool" /\ ret.outcome = "resolved") =>
          ret.latency <= TimeoutMs(conns[ret.conn])
    /\ (ret.op = "callTool" /\ ret.err \in {TimeoutError, AbortError}) =>
          ret.outcome = "thrown"

\* a call under the default timeout, with a live caller signal, has failed
\* with the timeout error: the remote had not answered within the timeout
C5_Witness ==
    /\ ret.op = "callTool"
    /\ ret.outcome = "thrown"
    /\ ret.err = TimeoutError
    /\ ret.sig = "live"
    /\ ~ret.lazy
    /\ TimeoutMs(conns[ret.conn]) = DEFAULT_TIMEOUT_MS
    /\ \E lat \in Latencies : lat > TimeoutMs(conns[ret.conn])

\* C6: a callTool() whose caller-supplied signal is already aborted when the
\* call begins never returns the remote call's result.
C6_AbortedSignalNeverReturnsResult ==
    (ret.op = "callTool" /\ ret.sig = "aborted") => ret.outcome # "resolved"

\* a listTools() is invoked on connection k in this step: it returns at once
\* (cache hit or not-connected error) or it becomes an outstanding invocation
ListToolsInvoked(k) ==
    \/ /\ ret'.op = "listTools" /\ ret'.conn = k
       /\ tasks' = tasks
    \/ \E t \in BagToSet(tasks') :
          /\ t.op = "listTools" /\ t.conn = k
          /\ CopiesIn(t, tasks') > CopiesIn(t, tasks)
          /\ BagCardinality(tasks') > BagCardinality(tasks)

\* C7: cache round trip.  Once a listTools() has succeeded on a connection and
\* until the next disconnect(), every listTools() invoked on the connection
\* (taken here while it is connected) returns at once the list that the first
\* success returned, and starts neither a discovery round trip nor a connect
\* attempt.
C7_CacheRoundTrip ==
    [][ \A k \in DOMAIN conns :
          (/\ ~hist[k].listed.isNull
           /\ conns[k].status = "connected"
           /\ ListToolsInvoked(k)) =>
              /\ ret'.op = "listTools"
              /\ ret'.outcome = "resolved"
              /\ ret'.tools = hist[k].listed
              /\ UNCHANGED <<conns, tasks, nAttempts>>
      ]_vars

\* C8: resolveMcpTools returns, in server-then-capability order, exactly the
\* bridged tools of the cached capabilities of the registered enabled servers,
\* a capability being excluded by the allowlist only when its descriptor
\* declares a non-empty allowlist without its name: the result is what the
\* resolution yields when an empty allowlist is read as an absent one.
C8_ResolveReturnsPermittedTools ==
    ret.op = "resolve" =>
        LET servers == [i \in DOMAIN cfg |->
                           IF cfg[i].tools.present /\ cfg[i].tools.list = <<>>
                           THEN [cfg[i] EXCEPT !.tools = NoTools]
                           ELSE cfg[i]]
        IN ret.agentTools =
               ResolveTools(servers, connections, conns, ret.existing).tools

\* C9: resolveMcpTools is a synchronous read-only step.  The step in which it
\* runs and returns starts no connect attempt and no discovery round trip, and
\* leaves unchanged the registry map and every connection's status, handle
\* and cache, whatever state the connections are in.
C9_ResolveIsReadOnly ==
    [][ ret'.op = "resolve" =>
          /\ ret'.outcome = "resolved"
          /\ UNCHANGED <<cfg, conns, connections, tasks, nAttempts, hist>>
      ]_vars

\* resolveMcpTools has just returned with one registered connection in error
\* and another connecting with its attempt in flight, both without a cache
\* and both skipped with a warning
C9_Witness ==
    /\ ret.op = "resolve"
    /\ Len(ret.warned) = 2
    /\ \E j, k \in Registered :
          /\ conns[j].status = "error"
          /\ conns[k].status = "connecting"
          /\ conns[j].cachedTools.isNull /\ conns[k].cachedTools.isNull
          /\ \E task \in Outstanding : task.pc = "transport" /\ task.conn = k

\* C10: discovery happens at init and on reconnect.  When initMcpRegistry
\* returns, every connection it created that is connected and registered has
\* its cache populated, and a resolveMcpTools run right then does not skip
\* that server as not yet cached; the same for a connection whose reconnect
\* (disconnect() then connect()) has just succeeded.
C10_DiscoveryAtInitAndReconnect ==
    LET settled == IF ret.op = "init" THEN Range(ret.made)
                   ELSE IF ret.op = "reconnect" /\ ret.details = "reconnected"
                        THEN {ret.conn}
                        ELSE {}
        skipped == Range(ResolveTools(cfg, connections, conns, NoExisting).warned)
    IN \A k \in settled :
          (conns[k].status = "connected" /\ k \in Registered) =>
              /\ ~conns[k].cachedTools.isNull
              /\ conns[k].config.name \notin skipped

\* C11: a connection whose status is connected or error reaches connecting
\* only through a disconnect-then-connect cycle: no step takes the status of a
\* connection directly from connected or error to connecting.
C11_ConnectingOnlyAfterDisconnect ==
    [][ \A k \in DOMAIN conns :
          conns[k].status \in {"connected", "error"} =>
              conns'[k].status # "connecting"
      ]_vars

\* C12: when disposeMcpRegistry returns, it has not failed and every
\* connection that was registered when it was called is disconnected and has
\* no handle, also when an initMcpRegistry with connect attempts in progress
\* overlaps it.
C12_DisposeLeavesNothingConnected ==
    ret.op = "dispose" =>
        /\ ret.outcome = "resolved"
        /\ \A k \in ret.entries :
              /\ conns[k].status = "disconnected"
              /\ conns[k].client = NoHandle

\* names of the descriptors with enabled !== false
EnabledNames == { cfg[i].name : i \in { j \in DOMAIN cfg : cfg[j].enabled # "false" } }
\* names under which a connection is registered
RegisteredNames == { connections[i].name : i \in DOMAIN connections }

\* C13: every connection object ever created belongs to a descriptor with
\* enabled !== false, so that no connect, discovery or call is outstanding or
\* registered for a disabled server; and when initMcpRegistry returns, with
\* nothing disposing the registry, the registered names are exactly the names
\* of the enabled descriptors, the servers whose connect failed included.
C13_RegisteredAreTheEnabled ==
    /\ \A k \in DOMAIN conns :
          \E i \in DOMAIN cfg : cfg[i] = conns[k].config /\ cfg[i].enabled # "false"
    /\ \A task \in Outstanding :
          task.conn # 0 => conns[task.conn].config.enabled # "false"
    /\ \A i \in DOMAIN connections :
          /\ connections[i].conn \in DOMAIN conns
          /\ conns[connections[i].conn].config.name = connections[i].name
    /\ RegisteredNames \subseteq EnabledNames
    /\ ret.op = "init" =>
          /\ RegisteredNames = EnabledNames
          /\ \A j \in DOMAIN ret.made :
                conns[ret.made[j]].config.name \in RegisteredNames

\* init has returned for a list with a disabled descriptor: the enabled
\* server's connect failed, it is registered in status error, and no
\* connection exists for the disabled one
C13_Witness ==
    /\ ret.op = "init"
    /\ ret.fails = 1
    /\ \E i \in DOMAIN cfg : cfg[i].enabled = "false"
    /\ \E i \in DOMAIN connections :
          /\ conns[connections[i].conn].status = "error"
          /\ connections[i].conn = ret.made[1]
    /\ RegisteredNames = {"alpha"}
    /\ Len(conns) = 1

\* C14: in every reachable state of a connection, under any interleaving of
\* connect(), disconnect(), listTools() and callTool() and of their in-flight
\* completions, a handle is present only while the status is connected.
C14_HandleOnlyWhileConnected ==
    \A k \in DOMAIN conns :
        conns[k].client # NoHandle => conns[k].status = "connected"

\* the handle of an earlier attempt is installed, the status is connected,
\* and a later attempt, started after a disconnect(), is still in flight
C14_Witness ==
    \E k \in DOMAIN conns :
        /\ conns[k].client # NoHandle
        /\ conns[k].status = "connected"
        /\ \E task \in Outstanding :
              /\ task.pc = "transport" /\ task.conn = k
              /\ task.h > conns[k].client

\* C15: the capability cache never outlives the connection cycle that
\* produced it: the cache is null whenever the status is disconnected,
\* connecting or error, also when a discovery round trip was in flight at the
\* time of the disconnect().
C15_CacheOnlyWhileConnected ==
    \A k \in DOMAIN conns :
        conns[k].status \in {"disconnected", "connecting", "error"} =>
            conns[k].cachedTools.isNull

\* C16: for every set of existing names given to resolveMcpTools, no tool of
\* the list it returns has a name in that set, even when the capability is
\* cached and permitted by the allowlist.
C16_NoExistingNameReturned ==
    (ret.op = "resolve" /\ ret.existing.present) =>
        \A i \in DOMAIN ret.agentTools :
            ret.agentTools[i].name \notin ret.existing.names

\* resolveMcpTools has returned for the existing name mcp__alpha__x while
\* alpha's cache holds x and y and the descriptor permits both: y alone was
\* bridged
C16_Witness ==
    /\ ret.op = "resolve"
    /\ ret.existing = Existing({"mcp__alpha__x"})
    /\ \E k \in Registered :
          /\ conns[k].config.name = "alpha"
          /\ ~conns[k].config.tools.present
          /\ conns[k].cachedTools = ToolList(<<Tool("x"), Tool("y")>>)
          /\ ret.agentTools = <<mcpToolToAgentTool("alpha", Tool("y"), k)>>

\* C17: the name transform is deterministic and keeps servers apart: bridging
\* capability c of server s yields the name mcp__<s>__<c> (for instance
\* mcp__myserver__my_tool and mcp__alpha__search), and the same capability
\* bridged under two different server names yields two different names.
C17_NameTransform ==
    ret.op = "bridge" =>
        /\ \A i \in DOMAIN ret.agentTools :
              LET t == ret.agentTools[i]
                  s == conns[t.conn].config.name
              IN /\ t.name = "mcp__" \o s \o "__" \o t.tool
                 /\ (s = "myserver" /\ t.tool = "my_tool") =>
                       t.name = "mcp__myserver__my_tool"
                 /\ (s = "alpha" /\ t.tool = "search") =>
                       t.name = "mcp__alpha__search"
        /\ \A i, j \in DOMAIN ret.agentTools :
              (/\ ret.agentTools[i].tool = ret.agentTools[j].tool
               /\ conns[i].config.name # conns[j].config.name) =>
                  ret.agentTools[i].name # ret.agentTools[j].name

\* the capability b__x has been bridged under the servers a and a__b, whose
\* names and separators overlap: the two tool names differ
C17_Witness ==
    /\ ret.op = "bridge"
    /\ conns[1].config.name = "a"
    /\ conns[2].config.name = "a__b"
    /\ ret.agentTools[1].name = "mcp__a__b__x"
    /\ ret.agentTools[2].name = "mcp__a__b__b__x"

\* a callTool() is invoked on connection k in this step: it returns at once
\* (not-connected error) or it becomes an outstanding invocation
CallToolInvoked(k) ==
    \/ /\ ret'.op = "callTool" /\ ret'.conn = k
       /\ tasks' = tasks
    \/ \E t \in BagToSet(tasks') :
          /\ t.op = "callTool" /\ t.conn = k
          /\ CopiesIn(t, tasks') > CopiesIn(t, tasks)
          /\ BagCardinality(tasks') > BagCardinality(tasks)

RoundTrips(b) ==
    LET S == {t \in BagToSet(b) : t.pc \in {"list", "call"}}
    IN BagCardinality([t \in S |-> CopiesIn(t, b)])

\* C19: lazy connect-on-demand.  A listTools() on cache miss or a callTool()
\* invoked while the status is disconnected starts exactly one connect attempt
\* and no round trip.  When the attempt that such an invocation awaits
\* succeeds, the invocation goes on to its round trip with the attempt's
\* handle as the connection's handle; when it fails, the invocation throws the
\* transport error, the status is error and no round trip is started.
C19_LazyConnectOnDemand ==
    [][ /\ \A k \in DOMAIN conns :
             (/\ conns[k].status = "disconnected"
              /\ \/ ListToolsInvoked(k) /\ conns[k].cachedTools.isNull
                 \/ CallToolInvoked(k)) =>
                 /\ nAttempts' = nAttempts + 1
                 /\ hist'[k].attempts = hist[k].attempts + 1
                 /\ conns'[k].status = "connecting"
                 /\ BagCardinality(tasks') = BagCardinality(tasks) + 1
                 /\ RoundTrips(tasks') = RoundTrips(tasks)
                 /\ ret' = NoRet
                 /\ \E t \in BagToSet(tasks') :
                       /\ t.op \in {"listTools", "callTool"}
                       /\ t.pc = "transport" /\ t.conn = k /\ t.h = nAttempts'
                       /\ CopiesIn(t, tasks') > CopiesIn(t, tasks)
        /\ \A task \in Outstanding :
             (/\ task.op \in {"listTools", "callTool"}
              /\ task.pc = "transport"
              /\ AttemptSettles(task)) =>
                 \/ /\ conns'[task.conn].status = "connected"
                    /\ conns'[task.conn].client = task.h
                    /\ RoundTrips(tasks') = RoundTrips(tasks) + 1
                    /\ ret' = NoRet
                    /\ \E t \in BagToSet(tasks') :
                          /\ t.op = task.op /\ t.conn = task.conn
                          /\ t.pc = IF task.op = "listTools" THEN "list" ELSE "call"
                          /\ task.op = "listTools" => t.h = task.h
                          /\ CopiesIn(t, tasks') > CopiesIn(t, tasks)
                 \/ /\ conns'[task.conn].status = "error"
                    /\ conns'[task.conn].client = NoHandle
                    /\ ret'.op = task.op /\ ret'.conn = task.conn
                    /\ ret'.outcome = "thrown" /\ ret'.err = TransportError
                    /\ RoundTrips(tasks') = RoundTrips(tasks)
                    /\ BagCardinality(tasks') = BagCardinality(tasks) - 1
      ]_vars

\* a callTool() that found the connection disconnected has thrown the
\* transport error of its own connect attempt
C19_Witness ==
    /\ ret.op = "callTool" /\ ret.lazy
    /\ ret.outcome = "thrown" /\ ret.err = TransportError
    /\ conns[ret.conn].status = "error"
    /\ hist[ret.conn].attempts >= 1


\* C20: a connection never leaks a transport handle.  Whenever the handle of a
\* connection stops being its current handle, that step hands it to
\* client.close(): an invocation awaiting the close of that very handle is
\* outstanding afterwards.
C20_NoHandleLeak ==
    [][ \A k \in DOMAIN conns :
          (conns[k].client # NoHandle /\ conns'[k].client # conns[k].client) =>
              \E t \in BagToSet(tasks') :
                 /\ t.pc = "close" /\ t.conn = k /\ t.h = conns[k].client
                 /\ CopiesIn(t, tasks') > CopiesIn(t, tasks)
      ]_vars


\* C21: the registry never orphans a live connection.  While nothing disposes
\* the registry, every connection that initMcpRegistry created and that holds
\* a handle or has a connect attempt in flight is the connection registered
\* under its name.
C21_NoOrphanedConnection ==
    \A k \in DOMAIN conns :
       (\/ conns[k].client # NoHandle
        \/ \E t \in Outstanding : t.pc = "transport" /\ t.conn = k) =>
           MapGet(connections, conns[k].config.name) = k


\* C22: disposal is final.  A connection that disposeMcpRegistry disconnected
\* (it is disconnected, no longer registered and has no attempt in flight)
\* stays disconnected and without a handle, whatever is done with the bridged
\* tools resolved before.
C22_DisposalIsFinal ==
    [][ \A k \in DOMAIN conns :
          (/\ k \notin Registered
           /\ conns[k].status = "disconnected"
           /\ ~\E t \in Outstanding : t.pc = "transport" /\ t.conn = k) =>
              /\ conns'[k].status = "disconnected"
              /\ conns'[k].client = NoHandle
      ]_vars


\* C23: the array that one resolveMcpTools call returns holds no two tools of
\* the same name.
C23_ResolvedNamesDistinct ==
    ret.op = "resolve" =>
        \A i, j \in 1..Len(ret.agentTools) :
           i # j => ret.agentTools[i].name # ret.agentTools[j].name

====
